---- MODULE Spec2Model ----
(***************************************************************************)
(* State machine of notepad.py: the Notepad main window, the FindDialog    *)
(* and the ReplaceDialog, as one Tk event loop dispatching one handler at  *)
(* a time.                                                                 *)
(*                                                                         *)
(* The text buffer is a sequence of one-character strings WITHOUT the      *)
(* newline the Tk text widget always keeps after the last character;       *)
(* text_get adds it back, as text.get('1.0', END) returns it.  The insert  *)
(* mark is a character offset 0..Len(buf); Row and Col turn it into the    *)
(* "row.col" index of the widget.                                          *)
(*                                                                         *)
(* Toolkit behaviour the handlers rest on (Tk 8.6, the Tk of Python 3):    *)
(*  - an insertion or deletion of at least one character raises the        *)
(*    widget's modified flag; edit_modified(flag) sets it;                 *)
(*  - each CHANGE of the flag queues one <<Modified>> virtual event at the *)
(*    tail of the event queue; the event loop dispatches it, to            *)
(*    _on_modified, after the running handler has returned and before any  *)
(*    user input that arrives later;                                       *)
(*  - the insert mark has right gravity: text inserted at the mark ends up *)
(*    before it.                                                           *)
(* A modal dialog (message box, file dialog) runs the event loop while it   *)
(* is open; every handler opens its dialogs either before it touches the   *)
(* text or as its last statement, so dispatching the queued events after   *)
(* the handler gives the same states.  Commands are taken as invoked from  *)
(* the menus and buttons.                                                  *)
(* Not modelled: undo/redo history, fonts, tags, scrolling, the About box. *)
(***************************************************************************)
EXTENDS Integers, Sequences, FiniteSets, TLC

VARIABLES
    buf,        \* text widget content, without the widget's final newline
    insert,     \* the insert mark (caret), as an offset 0..Len(buf)
    modified,   \* the text widget's modified flag (text.edit_modified())
    pending,    \* number of <<Modified>> events queued and not yet dispatched
    filename,   \* self.filename: a path, or NoFile for None
    title,      \* root.title()
    status,     \* self.status (the status bar's StringVar)
    wrap_var,   \* self.wrap_var (the Word Wrap checkbutton)
    wrap,       \* the text widget's wrap option
    h_scroll,   \* whether the horizontal scrollbar is packed
    destroyed,  \* root.destroy() was called
    ev,         \* what the last dispatched command handler did (observation)
    unsaved     \* ghost: text mutated since the last new / open / save

vars == <<buf, insert, modified, pending, filename, title, status, wrap_var,
          wrap, h_scroll, destroyed, ev, unsaved>>

----------------------------------------------------------------------------
(* Bounds of the model *)

\* longest buffer typed, pasted or read from a file in Spec
MaxLen == 2
\* longest content of a file that is opened in Spec
MaxData == 1
\* longest initial buffer of SpecSearch
MaxText == 4

----------------------------------------------------------------------------
(* Values *)

NL == "\n"
TypeChars == {"a", NL}
SearchChars == {"a", "A"}

Strings(S, n) == UNION {[1..k -> S] : k \in 0..n}

\* None, and the '' a cancelled file dialog returns: both falsy
NoFile == <<>>
\* a path is its sequence of components
Paths == {<<"docs", "a.txt">>, <<"b.txt">>}
NoWrite == <<>>
ReadError == <<"ReadError">>
NotFound == -1

----------------------------------------------------------------------------
(* The text widget and the library calls the handlers make.  A widget       *)
(* state s is a record of the program variables plus what the running       *)
(* handler has shown and written so far (prompted, wrote, error).           *)

\* os.path.basename(path)
basename(path) == path[Len(path)]

\* str.rstrip('\n'): every trailing newline is removed
RECURSIVE rstrip(_)
rstrip(data) ==
    IF data # <<>> /\ data[Len(data)] = NL
    THEN rstrip(SubSeq(data, 1, Len(data) - 1))
    ELSE data

\* text.get('1.0', tk.END): the content and the widget's final newline
text_get(s) == s.buf \o <<NL>>

\* row of text.index(...) for offset pos: 1-indexed line
Row(b, pos) == 1 + Cardinality({k \in 1..pos : b[k] = NL})

\* offset of the first character of the line holding offset pos
LineStart(b, pos) ==
    LET nls == {k \in 1..pos : b[k] = NL}
    IN  IF nls = {} THEN 0 ELSE CHOOSE k \in nls : \A j \in nls : j <= k

\* col of text.index(...) for offset pos: 0-indexed column
Col(b, pos) == pos - LineStart(b, pos)

\* int(text.index('end-1c').split('.')[0]): the number of the last line
LastLine(b) == Row(b, Len(b))

\* offset of index f'{line}.0', for 1 <= line <= LastLine(b)
LineOffset(b, line) ==
    IF line = 1 THEN 0
    ELSE CHOOSE k \in 1..Len(b) :
            b[k] = NL /\ Cardinality({j \in 1..k : b[j] = NL}) = line - 1

\* the widget raises its modified flag; a change of the flag queues <<Modified>>
UpdateDirtyFlag(s) ==
    IF s.modified THEN s
    ELSE [s EXCEPT !.modified = TRUE, !.pending = @ + 1]

\* text.edit_modified(flag)
edit_modified(s, flag) ==
    IF s.modified = flag THEN s
    ELSE [s EXCEPT !.modified = flag, !.pending = @ + 1]

\* text.delete(i, i + n chars), offsets; the insert mark follows the text
text_delete(s, i, n) ==
    IF n <= 0 THEN s
    ELSE UpdateDirtyFlag(
           [s EXCEPT !.buf = SubSeq(s.buf, 1, i) \o SubSeq(s.buf, i + n + 1, Len(s.buf)),
                     !.insert = IF s.insert <= i THEN s.insert
                                ELSE IF s.insert >= i + n THEN s.insert - n
                                ELSE i])

\* text.insert(i, data); the insert mark has right gravity
text_insert(s, i, data) ==
    IF data = <<>> THEN s
    ELSE UpdateDirtyFlag(
           [s EXCEPT !.buf = SubSeq(s.buf, 1, i) \o data \o SubSeq(s.buf, i + 1, Len(s.buf)),
                     !.insert = IF s.insert >= i THEN s.insert + Len(data)
                                ELSE s.insert])

\* case folding of the nocase search
Lower(c) == IF c = "A" THEN "a" ELSE c

\* whether needle stands in b at offset i
MatchAt(b, needle, i, nocase) ==
    /\ i >= 0
    /\ i + Len(needle) <= Len(b)
    /\ \A k \in 1..Len(needle) :
          IF nocase THEN Lower(b[i + k]) = Lower(needle[k])
          ELSE b[i + k] = needle[k]

\* text.search(needle, start, [nocase=1,] stopindex='end'): the offset of the
\* first match at or after start, scanning forward to the end and no further
RECURSIVE text_search(_, _, _, _)
text_search(b, needle, start, nocase) ==
    IF start + Len(needle) > Len(b) THEN NotFound
    ELSE IF MatchAt(b, needle, start, nocase) THEN start
    ELSE text_search(b, needle, start + 1, nocase)

----------------------------------------------------------------------------
(* Notepad: the methods, as functions of the widget state and of what the   *)
(* user and the file system answer.  A method that returns a value yields   *)
(* [s |-> state, ret |-> value].                                            *)

\* Notepad._update_status
_update_status(s) ==
    LET row  == Row(s.buf, s.insert)
        col  == Col(s.buf, s.insert)
        mode == IF s.wrap_var THEN "WRAP" ELSE "NOWRAP"
        name == IF s.filename # NoFile THEN basename(s.filename) ELSE "Untitled"
    IN  [s EXCEPT !.status = name \o "    Ln " \o ToString(row) \o ", Col "
                                  \o ToString(col + 1) \o "    " \o mode]

\* Notepad._update_title
_update_title(s) ==
    LET name    == IF s.filename # NoFile THEN basename(s.filename) ELSE "Untitled"
        changed == IF s.modified THEN "*" ELSE ""
    IN  [s EXCEPT !.title = name \o changed \o " - Notepad"]

\* Notepad._on_modified
_on_modified(s) == _update_status(edit_modified(s, FALSE))

\* save_as with the path adopted before the write is attempted
save_as_adopts_early(s, file, ok) ==
    IF file # NoFile
    THEN LET s0 == [s EXCEPT !.filename = file]
         IN  IF ok
             THEN LET s1 == [s0 EXCEPT !.wrote = <<file, rstrip(text_get(s0))>>]
                  IN  [s |-> _update_title(edit_modified(s1, FALSE)), ret |-> TRUE]
             ELSE [s |-> [s0 EXCEPT !.error = "Save File"], ret |-> FALSE]
    ELSE [s |-> s, ret |-> FALSE]

\* Notepad.save_as; file is what the save dialog returns, ok whether the
\* write succeeds
save_as(s, file, ok) ==
    IF file # NoFile
    THEN IF ok
         THEN LET s1 == [s EXCEPT !.wrote = <<file, rstrip(text_get(s))>>]
                  s2 == [s1 EXCEPT !.filename = file]
              IN  [s |-> _update_title(edit_modified(s2, FALSE)), ret |-> TRUE]
         ELSE [s |-> [s EXCEPT !.error = "Save File"], ret |-> FALSE]
    ELSE [s |-> s, ret |-> FALSE]

\* Notepad.save_file
save_file(s, file, ok) ==
    IF s.filename # NoFile
    THEN IF ok
         THEN LET s1 == [s EXCEPT !.wrote = <<s.filename, rstrip(text_get(s))>>]
              IN  [s |-> _update_title(edit_modified(s1, FALSE)), ret |-> TRUE]
         ELSE [s |-> [s EXCEPT !.error = "Save File"], ret |-> FALSE]
    ELSE save_as(s, file, ok)

\* Notepad._maybe_save; choice is the answer to askyesnocancel
_maybe_save(s, choice, file, ok) ==
    IF s.modified
    THEN LET s1 == [s EXCEPT !.prompted = TRUE]
         IN  IF choice = "yes" THEN save_file(s1, file, ok)
             ELSE IF choice = "cancel" THEN [s |-> s1, ret |-> FALSE]
             ELSE [s |-> s1, ret |-> TRUE]
    ELSE [s |-> s, ret |-> TRUE]

\* Notepad.new_file
new_file(s, choice, file, ok) ==
    LET r == _maybe_save(s, choice, file, ok)
    IN  IF r.ret
        THEN LET s1 == text_delete(r.s, 0, Len(r.s.buf))
                 s2 == [s1 EXCEPT !.filename = NoFile]
             IN  _update_title(s2)
        ELSE r.s

\* open_file with the buffer cleared before the file is read
open_file_clears_first(s, choice, sfile, sok, file, data) ==
    LET r == _maybe_save(s, choice, sfile, sok)
    IN  IF ~r.ret THEN r.s
        ELSE IF file = NoFile THEN r.s
        ELSE LET s1 == text_delete(r.s, 0, Len(r.s.buf))
             IN  IF data = ReadError THEN [s1 EXCEPT !.error = "Open File"]
                 ELSE LET s2 == text_insert(s1, 0, data)
                          s3 == [s2 EXCEPT !.filename = file]
                          s4 == _update_title(s3)
                      IN  edit_modified(s4, FALSE)

\* Notepad.open_file; file is what the open dialog returns, data what
\* f.read() returns, or ReadError when open() or read() raises
open_file(s, choice, sfile, sok, file, data) ==
    LET r == _maybe_save(s, choice, sfile, sok)
    IN  IF ~r.ret THEN r.s
        ELSE IF file = NoFile THEN r.s
        ELSE IF data = ReadError THEN [r.s EXCEPT !.error = "Open File"]
        ELSE LET s1 == text_delete(r.s, 0, Len(r.s.buf))
                 s2 == text_insert(s1, 0, data)
                 s3 == [s2 EXCEPT !.filename = file]
                 s4 == _update_title(s3)
             IN  edit_modified(s4, FALSE)

\* Notepad.exit_app
exit_app(s, choice, file, ok) ==
    LET r == _maybe_save(s, choice, file, ok)
    IN  IF r.ret THEN [r.s EXCEPT !.destroyed = TRUE] ELSE r.s

\* Notepad.goto_line; answer is what askinteger returns: <<n>>, or NoLine
\* for None
NoLine == <<>>
goto_line(s, answer) ==
    IF answer = NoLine THEN s
    ELSE LET line == answer[1]
             max_line == LastLine(s.buf)
             l1 == IF line < 1 THEN 1 ELSE line
             l2 == IF l1 > max_line THEN max_line ELSE l1
         IN  _update_status([s EXCEPT !.insert = LineOffset(s.buf, l2)])

\* Notepad.toggle_wrap, after the checkbutton has set wrap_var
toggle_wrap(s) ==
    IF s.wrap_var
    THEN [s EXCEPT !.wrap = "word", !.h_scroll = FALSE]
    ELSE [s EXCEPT !.wrap = "none", !.h_scroll = TRUE]

----------------------------------------------------------------------------
(* FindDialog and ReplaceDialog *)

\* find_next searching from the start of the text instead of the caret
find_next_from_top(s, needle, match_case) ==
    IF needle = <<>> THEN s
    ELSE LET idx == text_search(s.buf, needle, 0, ~match_case)
         IN  IF idx = NotFound THEN [s EXCEPT !.error = "Find"]
             ELSE [s EXCEPT !.insert = idx + Len(needle)]

\* FindDialog.find_next
find_next(s, needle, match_case) ==
    IF needle = <<>> THEN s
    ELSE LET start == s.insert
             idx   == text_search(s.buf, needle, start, ~match_case)
         IN  IF idx = NotFound THEN [s EXCEPT !.error = "Find"]
             ELSE [s EXCEPT !.insert = idx + Len(needle)]

\* ReplaceDialog.replace_one
replace_one(s, needle, repl, match_case) ==
    IF needle = <<>> THEN s
    ELSE LET start == s.insert
             idx   == text_search(s.buf, needle, start, ~match_case)
         IN  IF idx = NotFound THEN [s EXCEPT !.error = "Replace"]
             ELSE LET s1 == text_delete(s, idx, Len(needle))
                      s2 == text_insert(s1, idx, repl)
                  IN  [s2 EXCEPT !.insert = idx + Len(repl)]

\* the next search starting one character past the replacement
NextIdxSkipsOne(idx, needle, repl) == idx + Len(repl) + 1

\* where the next search of replace_all starts
NextIdx(idx, needle, repl) == idx + Len(repl)

\* the while loop of ReplaceDialog.replace_all, entered with the search
\* position idx and count replacements made
RECURSIVE replace_all_loop(_, _, _, _, _, _)
replace_all_loop(s, needle, repl, match_case, idx, count) ==
    LET hit == text_search(s.buf, needle, idx, ~match_case)
    IN  IF hit = NotFound THEN [s EXCEPT !.count = count]
        ELSE LET s1 == text_delete(s, hit, Len(needle))
                 s2 == text_insert(s1, hit, repl)
             IN  replace_all_loop(s2, needle, repl, match_case,
                                  NextIdx(hit, needle, repl), count + 1)

\* ReplaceDialog.replace_all
replace_all(s, needle, repl, match_case) ==
    IF needle = <<>> THEN s
    ELSE replace_all_loop(s, needle, repl, match_case, 0, 0)

----------------------------------------------------------------------------
(* The event loop: one handler per step *)

Choices == {"yes", "no", "cancel"}
Files == Paths \cup {NoFile}
Clips == {<<"a">>, <<"a", NL>>}
Needles == {<<"a">>}
Repls == {<<>>}
SearchNeedles == {<<>>, <<"a">>, <<"a", "a">>, <<"a", "A">>}
SearchRepls == {<<>>, <<"A">>, <<"a", "a", "a">>}

\* the widget state a handler starts from
St == [buf |-> buf, insert |-> insert, modified |-> modified, pending |-> pending,
       filename |-> filename, title |-> title, status |-> status,
       wrap_var |-> wrap_var, wrap |-> wrap, h_scroll |-> h_scroll,
       destroyed |-> destroyed,
       prompted |-> FALSE, wrote |-> NoWrite, error |-> "none", count |-> 0]

NoArgs == [needle |-> <<>>, repl |-> <<>>, match_case |-> FALSE]

\* the state a handler leaves; ev records the handler (op), the answer the
\* user has for an unsaved-changes prompt, whether the command went through
\* (done), the dialog's entries (args), and what the handler showed and wrote
Commit(s, op, answer, done, args, uns) ==
    /\ buf' = s.buf
    /\ insert' = s.insert
    /\ modified' = s.modified
    /\ pending' = s.pending
    /\ filename' = s.filename
    /\ title' = s.title
    /\ status' = s.status
    /\ wrap_var' = s.wrap_var
    /\ wrap' = s.wrap
    /\ h_scroll' = s.h_scroll
    /\ destroyed' = s.destroyed
    /\ ev' = [op |-> op, answer |-> answer, done |-> done, args |-> args,
              prompted |-> s.prompted, wrote |-> s.wrote, error |-> s.error,
              count |-> s.count]
    /\ unsaved' = uns

\* what the save dialog of the unsaved-changes prompt can return: it opens
\* only when the prompt is shown, answered yes, and no file name is set
SaveDialog(choice) ==
    IF modified /\ choice = "yes" /\ filename = NoFile THEN Files ELSE {NoFile}

\* whether a write succeeds, for the file a save dialog returned; asked only
\* when something is written
WriteResult(file) ==
    IF file # NoFile \/ filename # NoFile THEN BOOLEAN ELSE {FALSE}

\* what reading the chosen file yields; asked only when a file was chosen
ReadResult(file) ==
    IF file = NoFile THEN {ReadError}
    ELSE Strings(TypeChars, MaxData) \cup {ReadError}

\* the window exists and no <<Modified>> event is queued ahead of the input
Ready == ~destroyed /\ pending = 0

\* Notepad.__init__
InitState ==
    _update_status(_update_title(
        [buf |-> <<>>, insert |-> 0, modified |-> FALSE, pending |-> 0,
         filename |-> NoFile, title |-> "Untitled - Notepad", status |-> "",
         wrap_var |-> FALSE, wrap |-> "none", h_scroll |-> TRUE,
         destroyed |-> FALSE]))

InitEv == [op |-> "init", answer |-> "-", done |-> TRUE, args |-> NoArgs,
           prompted |-> FALSE, wrote |-> NoWrite, error |-> "none", count |-> 0]

Init ==
    /\ buf = InitState.buf
    /\ insert = InitState.insert
    /\ modified = InitState.modified
    /\ pending = InitState.pending
    /\ filename = InitState.filename
    /\ title = InitState.title
    /\ status = InitState.status
    /\ wrap_var = InitState.wrap_var
    /\ wrap = InitState.wrap
    /\ h_scroll = InitState.h_scroll
    /\ destroyed = InitState.destroyed
    /\ ev = InitEv
    /\ unsaved = FALSE

\* the event loop dispatches one queued <<Modified>> event
OnModified ==
    /\ ~destroyed
    /\ pending > 0
    /\ LET s == _on_modified([St EXCEPT !.pending = pending - 1])
       IN  /\ buf' = s.buf
           /\ insert' = s.insert
           /\ modified' = s.modified
           /\ pending' = s.pending
           /\ filename' = s.filename
           /\ title' = s.title
           /\ status' = s.status
           /\ UNCHANGED <<wrap_var, wrap, h_scroll, destroyed, ev, unsaved>>

\* File > New, Ctrl+N
NewFile ==
    \E choice \in Choices : \E file \in SaveDialog(choice) : \E ok \in WriteResult(file) :
        /\ Ready
        /\ LET r == _maybe_save(St, choice, file, ok)
               s == new_file(St, choice, file, ok)
           IN  Commit(s, "new", choice, r.ret, NoArgs,
                      IF r.ret \/ s.wrote # NoWrite THEN FALSE ELSE unsaved)

\* File > Open, Ctrl+O
OpenFile ==
    \E choice \in Choices : \E sfile \in SaveDialog(choice) : \E sok \in WriteResult(sfile) :
    \E file \in Files : \E data \in ReadResult(file) :
        /\ Ready
        /\ LET r == _maybe_save(St, choice, sfile, sok)
               s == open_file(St, choice, sfile, sok, file, data)
               loaded == r.ret /\ file # NoFile /\ data # ReadError
           IN  Commit(s, "open", choice, loaded, NoArgs,
                      IF loaded \/ s.wrote # NoWrite THEN FALSE ELSE unsaved)

\* File > Save, Ctrl+S
SaveFile ==
    \E file \in (IF filename = NoFile THEN Files ELSE {NoFile}) : \E ok \in WriteResult(file) :
        /\ Ready
        /\ LET r == save_file(St, file, ok)
           IN  Commit(r.s, "save", "-", r.ret, NoArgs, IF r.ret THEN FALSE ELSE unsaved)

\* File > Save As, Ctrl+Shift+S
SaveAs ==
    \E file \in Files : \E ok \in (IF file # NoFile THEN BOOLEAN ELSE {FALSE}) :
        /\ Ready
        /\ LET r == save_as(St, file, ok)
           IN  Commit(r.s, "save_as", "-", r.ret, NoArgs, IF r.ret THEN FALSE ELSE unsaved)

\* File > Exit
ExitApp ==
    \E choice \in Choices : \E file \in SaveDialog(choice) : \E ok \in WriteResult(file) :
        /\ Ready
        /\ LET s == exit_app(St, choice, file, ok)
           IN  Commit(s, "exit", choice, s.destroyed, NoArgs,
                      IF s.wrote # NoWrite THEN FALSE ELSE unsaved)

\* Edit > Go To Line, Ctrl+G
GotoLine ==
    \E answer \in {NoLine} \cup {<<n>> : n \in 0..(MaxLen + 2)} :
        /\ Ready
        /\ Commit(goto_line(St, answer), "goto_line", "-", answer # NoLine, NoArgs, unsaved)

\* View > Word Wrap: the checkbutton flips wrap_var and calls toggle_wrap
ToggleWrap ==
    /\ Ready
    /\ Commit(toggle_wrap([St EXCEPT !.wrap_var = ~wrap_var]), "toggle_wrap", "-",
              TRUE, NoArgs, unsaved)

\* a character key: the Text class binding inserts it at the insert mark,
\* then the root's <Key> binding runs _update_status
KeyChar ==
    \E c \in TypeChars :
        /\ Ready
        /\ Len(buf) < MaxLen
        /\ Commit(_update_status(text_insert(St, insert, <<c>>)), "key", "-",
                  TRUE, NoArgs, TRUE)

\* BackSpace: the Text class binding deletes the character before the mark
KeyBackSpace ==
    /\ Ready
    /\ insert > 0
    /\ Commit(_update_status(text_delete(St, insert - 1, 1)), "key", "-",
              TRUE, NoArgs, TRUE)

\* Left and Right: the Text class binding moves the mark
KeyArrow ==
    \E d \in {-1, 1} :
        /\ Ready
        /\ insert + d \in 0..Len(buf)
        /\ Commit(_update_status([St EXCEPT !.insert = insert + d]), "key", "-",
                  TRUE, NoArgs, unsaved)

\* a mouse click in the text sets the mark; no <Key> event
MouseClick ==
    \E pos \in 0..Len(buf) :
        /\ Ready
        /\ pos # insert
        /\ Commit([St EXCEPT !.insert = pos], "click", "-", TRUE, NoArgs, unsaved)

\* Edit > Cut: <<Cut>> deletes the selection, n characters from offset i
Cut ==
    \E i \in 0..Len(buf), n \in 1..Len(buf) :
        /\ Ready
        /\ i + n <= Len(buf)
        /\ Commit(text_delete(St, i, n), "cut", "-", TRUE, NoArgs, TRUE)

\* Edit > Paste: <<Paste>> inserts the clipboard at the mark
Paste ==
    \E clip \in Clips :
        /\ Ready
        /\ Len(buf) + Len(clip) <= MaxLen
        /\ Commit(text_insert(St, insert, clip), "paste", "-", TRUE, NoArgs, TRUE)

\* Find dialog, Find Next
FindNext(N) ==
    \E needle \in N, match_case \in BOOLEAN :
        /\ Ready
        /\ LET s == find_next(St, needle, match_case)
           IN  Commit(s, "find_next", "-", needle # <<>> /\ s.error = "none",
                      [needle |-> needle, repl |-> <<>>, match_case |-> match_case],
                      unsaved)

\* Replace dialog, Replace
ReplaceOne(N, R) ==
    \E needle \in N, repl \in R, match_case \in BOOLEAN :
        /\ Ready
        /\ Len(buf) <= MaxText
        /\ LET s == replace_one(St, needle, repl, match_case)
               hit == needle # <<>> /\ s.error = "none"
           IN  Commit(s, "replace_one", "-", hit,
                      [needle |-> needle, repl |-> repl, match_case |-> match_case],
                      IF hit THEN TRUE ELSE unsaved)

\* Replace dialog, Replace All
ReplaceAll(N, R) ==
    \E needle \in N, repl \in R, match_case \in BOOLEAN :
        /\ Ready
        /\ Len(buf) <= MaxText
        /\ LET s == replace_all(St, needle, repl, match_case)
           IN  Commit(s, "replace_all", "-", needle # <<>>,
                      [needle |-> needle, repl |-> repl, match_case |-> match_case],
                      IF s.count > 0 THEN TRUE ELSE unsaved)

Next ==
    \/ OnModified
    \/ ToggleWrap
    \/ KeyChar
    \/ KeyBackSpace
    \/ KeyArrow
    \/ MouseClick
    \/ Cut
    \/ Paste
    \/ GotoLine
    \/ NewFile
    \/ OpenFile
    \/ SaveFile
    \/ SaveAs
    \/ ExitApp
    \/ FindNext(Needles)
    \/ ReplaceOne(Needles, Repls)
    \/ ReplaceAll(Needles, Repls)

Spec == Init /\ [][Next]_vars

----------------------------------------------------------------------------
(* The dialogs alone, over every short buffer and caret *)

InitSearch ==
    /\ buf \in Strings(SearchChars, MaxText)
    /\ insert \in 0..Len(buf)
    /\ modified = FALSE
    /\ pending = 0
    /\ filename = NoFile
    /\ title = InitState.title
    /\ status = _update_status([InitState EXCEPT !.buf = buf, !.insert = insert]).status
    /\ wrap_var = FALSE
    /\ wrap = "none"
    /\ h_scroll = TRUE
    /\ destroyed = FALSE
    /\ ev = InitEv
    /\ unsaved = TRUE

NextSearch ==
    \/ OnModified
    \/ FindNext(SearchNeedles)
    \/ ReplaceOne(SearchNeedles, SearchRepls)
    \/ ReplaceAll(SearchNeedles, SearchRepls)

SpecSearch == InitSearch /\ [][NextSearch]_vars

----------------------------------------------------------------------------
(* Properties *)

\* the step dispatches the command handler op
Dispatched(op) == Ready /\ ev'.op = op

PromptingOps == {"new", "open", "exit"}

\* the name the title and the status line are to show
DisplayName == IF filename = NoFile THEN "Untitled" ELSE filename[Len(filename)]

\* C1: whenever new, open or exit is dispatched while the text has been
\* mutated since the last new / open / save, the unsaved-changes prompt is
\* shown, and the command goes through only after Discard or a successful
\* Save.
C1_PromptBeforeDiscard ==
    [][(\E op \in PromptingOps : Dispatched(op)) /\ unsaved
          => /\ ev'.prompted
             /\ ev'.done => (ev'.answer = "no" \/ ev'.wrote # NoWrite)]_vars

\* C2: when a command handler is about to read the modified flag, the flag is
\* false if the last command was a successful open, save or save_as, and it
\* is true if the text has been mutated since.
C2_DirtyFlagInvariant ==
    Ready =>
        /\ (ev.op \in {"open", "save", "save_as"} /\ ev.done) => ~modified
        /\ unsaved => modified

\* C3: new, open or exit dispatched on a mutated buffer by a user who answers
\* Cancel leaves the buffer, the path and the dirty flag as they were, writes
\* no file and does not destroy the window.
C3_CancelLeavesDocument ==
    [][(\E op \in PromptingOps : Dispatched(op)) /\ unsaved /\ ev'.answer = "cancel"
          => /\ buf' = buf
             /\ filename' = filename
             /\ modified' = modified
             /\ unsaved' = unsaved
             /\ ev'.wrote = NoWrite
             /\ ~destroyed']_vars

\* C4: a save or save_as whose write fails reports the error, returns
\* failure and leaves buffer, caret, path, modified flag and title as they
\* were; a command that was saving first does not go through.
C4_WriteFailureLeavesState ==
    [][Ready /\ ev'.error = "Save File"
          => /\ ~ev'.done
             /\ ev'.wrote = NoWrite
             /\ buf' = buf
             /\ insert' = insert
             /\ filename' = filename
             /\ modified' = modified
             /\ unsaved' = unsaved
             /\ title' = title
             /\ ~destroyed']_vars

\* C4 witness: a save_as of a mutated, never saved buffer has failed
C4_Witness ==
    /\ ev.op = "save_as"
    /\ ev.error = "Save File"
    /\ filename = NoFile
    /\ buf # <<>>
    /\ unsaved

\* C5: an open whose read fails reports the error and leaves buffer, caret,
\* path, modified flag and title as they were before the command.
C5_ReadFailureLeavesDocument ==
    [][Dispatched("open") /\ ev'.error = "Open File"
          => /\ ~ev'.done
             /\ buf' = buf
             /\ insert' = insert
             /\ filename' = filename
             /\ modified' = modified
             /\ unsaved' = unsaved
             /\ title' = title]_vars

\* C5 witness: an open has failed to read while a named, non-empty document
\* was loaded
C5_Witness ==
    /\ ev.op = "open"
    /\ ev.error = "Open File"
    /\ filename # NoFile
    /\ buf # <<>>

\* C6: what save and save_as write is the user's content: the text the
\* widget returns less exactly one trailing newline.
C6_SaveWritesUserContent ==
    [][Ready /\ ev'.wrote # NoWrite => ev'.wrote[2] = buf]_vars

\* folding and matching, stated apart from the widget's search
Fold(t, nocase) == [k \in 1..Len(t) |-> IF nocase /\ t[k] = "A" THEN "a" ELSE t[k]]
Occurs(t, needle, i, nocase) ==
    /\ i + Len(needle) <= Len(t)
    /\ Fold(SubSeq(t, i + 1, i + Len(needle)), nocase) = Fold(needle, nocase)
Matches(t, needle, from, nocase) ==
    {i \in from..Len(t) : Occurs(t, needle, i, nocase)}
Least(S) == CHOOSE i \in S : \A j \in S : i <= j

\* the text with every non-overlapping match replaced, left to right, and
\* the number of matches replaced; the rest of the text is what is scanned
RECURSIVE Replaced(_, _, _, _)
Replaced(t, needle, repl, nocase) ==
    LET M == Matches(t, needle, 0, nocase)
    IN  IF M = {} THEN t
        ELSE SubSeq(t, 1, Least(M)) \o repl
             \o Replaced(SubSeq(t, Least(M) + Len(needle) + 1, Len(t)), needle, repl, nocase)
RECURSIVE Replacements(_, _, _)
Replacements(t, needle, nocase) ==
    LET M == Matches(t, needle, 0, nocase)
    IN  IF M = {} THEN 0
        ELSE 1 + Replacements(SubSeq(t, Least(M) + Len(needle) + 1, Len(t)), needle, nocase)

A2 == <<"a", "a">>
A3 == <<"a", "a", "a">>

\* C7: replace_all with a non-empty needle replaces, whatever the caret,
\* every non-overlapping match in one left-to-right pass that never rescans
\* inserted text, and reports the number of replacements made; "aa" -> "aaa"
\* in "aaaa" gives "aaaaaa" and reports 2.
C7_ReplaceAllNonOverlapping ==
    [][Dispatched("replace_all") /\ ev'.args.needle # <<>>
          => LET a  == ev'.args
                 nc == ~a.match_case
             IN  /\ buf' = Replaced(buf, a.needle, a.repl, nc)
                 /\ ev'.count = Replacements(buf, a.needle, nc)
                 /\ (buf = A2 \o A2 /\ a.needle = A2 /\ a.repl = A3)
                       => (ev'.count = 2 /\ buf' = A3 \o A3)]_vars

\* C7 witness: "aa" -> "aaa" has run on "aaaa"
C7_Witness ==
    /\ ev.op = "replace_all"
    /\ ev.args.needle = A2
    /\ ev.args.repl = A3
    /\ ev.count = 2
    /\ buf = A3 \o A3

\* C8: find_next with a non-empty needle leaves the buffer alone; when the
\* needle occurs at or after the caret the caret moves to just after the
\* first such occurrence; otherwise (also when it occurs only before the
\* caret) the result is "not found" and the caret stays.
C8_FindForwardOnly ==
    [][Dispatched("find_next") /\ ev'.args.needle # <<>>
          => LET a == ev'.args
                 M == Matches(buf, a.needle, insert, ~a.match_case)
             IN  /\ buf' = buf
                 /\ IF M = {}
                    THEN insert' = insert /\ ev'.error = "Find"
                    ELSE insert' = Least(M) + Len(a.needle) /\ ev'.error = "none"]_vars

\* C8 witness: a search has reported "not found" although the needle occurs
\* before the caret
C8_Witness ==
    /\ ev.op = "find_next"
    /\ ev.error = "Find"
    /\ ev.args.needle # <<>>
    /\ Matches(buf, ev.args.needle, 0, ~ev.args.match_case) # {}
    /\ insert > 0

StatusOps == {"new", "open", "save", "save_as", "goto_line", "toggle_wrap",
              "find_next", "replace_one", "replace_all", "key"}

\* C9: once a command handler has completed and the events it queued are
\* dispatched, the status line shows the display name, the caret's line and
\* 1-indexed column, and the wrap mode.
C9_StatusLine ==
    (Ready /\ ev.op \in StatusOps) =>
        status = DisplayName \o "    Ln " \o ToString(Row(buf, insert)) \o ", Col "
                 \o ToString(Col(buf, insert) + 1) \o "    "
                 \o (IF wrap_var THEN "WRAP" ELSE "NOWRAP")

\* C10: once a command handler has completed and the events it queued are
\* dispatched, the title is the display name, "*" exactly when the text has
\* been mutated since the last new / open / save, and " - Notepad".
C10_TitleBar ==
    Ready => title = DisplayName \o (IF unsaved THEN "*" ELSE "") \o " - Notepad"

====
